---- MODULE Spec2Model ----
(***************************************************************************)
(* The plan-execute scheduler of the orchestrator: the node functions of   *)
(* orchestrator/nodes/*.py composed by the edges that                      *)
(* create_orchestrator_graph declares in orchestrator/graph.py.            *)
(*                                                                         *)
(* A node function reads the run state and returns a delta; the graph      *)
(* merges the delta into the run state (executed_steps by operator.add,    *)
(* every other key by replacement, models/state.py) and then evaluates the *)
(* node's conditional edge on the merged state.  One action of Spec is one *)
(* such superstep: node, merge, edge.                                      *)
(*                                                                         *)
(* The collaborators (planner LLM, replanner LLM, webhooks, responder LLM) *)
(* are nondeterministic: every answer of the bounded answer sets below may *)
(* come back.                                                              *)
(***************************************************************************)
EXTENDS Naturals, Integers, Sequences, FiniteSets

VARIABLES
    pc,                     \* Spec: the node that runs next ("END" after the last node);
                            \* FnSpec: "call", then the name of the function that returned last
    todo_list,              \* OrchestratorState.todo_list
    executed_steps,         \* OrchestratorState.executed_steps
    retry_count,            \* OrchestratorState.retry_count
    needs_clarification,    \* OrchestratorState.needs_clarification
    clarification_question, \* OrchestratorState.clarification_question
    final_response,         \* OrchestratorState.final_response
    error,                  \* OrchestratorState.error ("" is None)
    decision,               \* the value the last evaluated conditional edge returned ("" before the first)
    selected,               \* index in todo_list of the task get_next_ready_todo returned last
                            \* (0: None, -1: not called yet)
    checkpoint,             \* the state the checkpointer saved last for the thread_id
    inherited,              \* how many records of executed_steps the run loaded from the
                            \* checkpoint when it started
    parked,                 \* ThreadSpec: the other run of the same thread_id, awaiting its
                            \* turn on the event loop (<<>>: there is none)
    loggers,                \* the keys of graph._loggers, the registry of run loggers
    raised,                 \* str(e) of the exception raised last ("" : none was raised)
    returned                \* the value the call returned to its caller (<<>>: none yet)

vars == <<pc, todo_list, executed_steps, retry_count, needs_clarification,
          clarification_question, final_response, error, decision, selected,
          checkpoint, inherited, parked, loggers, raised, returned>>

BoundaryVars == <<loggers, raised, returned>>

(***************************************************************************)
(* Bounds of the model.                                                    *)
(***************************************************************************)
\* Spec: the executor invokes a tool only while the log is shorter than this.
MaxLog == 3
\* FnSpec: the largest retry_count among the inputs of the pure functions.
MaxRetry == 3

\* The replanning ceiling of check_todo_status (retry_count >= 2).
RetryCeiling == 2

Ids == {"step_1", "step_2"}
Statuses == {"pending", "running", "done", "failed"}

\* Lists of at most two elements of S.
UpToTwo(S) == {<<>>} \cup {<<a>> : a \in S} \cup {<<a, b>> : a \in S, b \in S}

\* TodoItem: depends_on is kept as a set (the code only tests membership),
\* error "" is None.
TodoItem == [id : Ids, depends_on : SUBSET Ids, status : Statuses, error : {""}]

\* ToolExecution: the fields the scheduler reads.
ToolExecution == [todo_id : Ids, success : BOOLEAN]

FallbackQuestion == "Ich konnte deinen Request nicht verstehen. Kannst du das nochmal anders formulieren?"

(***************************************************************************)
(* Readiness (nodes/executor.py, nodes/checker.py).                        *)
(***************************************************************************)
get_completed_step_ids(steps) ==
    {steps[i].todo_id : i \in {j \in DOMAIN steps : steps[j].success}}

\* The loop of get_next_ready_todo from position i on: the index of the first
\* pending task whose depends_on ids are all completed, 0 for None.
RECURSIVE next_ready_from(_, _, _)
next_ready_from(todos, completed_ids, i) ==
    IF i > Len(todos) THEN 0
    ELSE IF todos[i].status # "pending" THEN next_ready_from(todos, completed_ids, i + 1)
    ELSE IF \A dep_id \in todos[i].depends_on : dep_id \in completed_ids THEN i
    ELSE next_ready_from(todos, completed_ids, i + 1)

\* Faulty variant: the success filter of the completed ids is missing, so a failed
\* record satisfies a dependency.
get_next_ready_todo_any_record(todos, steps) ==
    next_ready_from(todos, {steps[i].todo_id : i \in DOMAIN steps}, 1)

\* Faulty variant: the first pending task is returned, whatever it depends on.
get_next_ready_todo_first_pending(todos, steps) ==
    next_ready_from([i \in DOMAIN todos |-> [todos[i] EXCEPT !.depends_on = {}]],
                    get_completed_step_ids(steps), 1)

get_next_ready_todo(todos, steps) ==
    next_ready_from(todos, get_completed_step_ids(steps), 1)

\* has_ready_todo of nodes/checker.py: its own copy of the same loop.
RECURSIVE has_ready_from(_, _, _)
has_ready_from(todos, completed_ids, i) ==
    IF i > Len(todos) THEN FALSE
    ELSE IF todos[i].status # "pending" THEN has_ready_from(todos, completed_ids, i + 1)
    ELSE IF \A dep_id \in todos[i].depends_on : dep_id \in completed_ids THEN TRUE
    ELSE has_ready_from(todos, completed_ids, i + 1)

\* Faulty variant: the checker counts every record as a completion.
has_ready_todo_any_record(todos, steps) ==
    has_ready_from(todos, {steps[i].todo_id : i \in DOMAIN steps}, 1)

has_ready_todo(todos, steps) ==
    has_ready_from(todos, {steps[i].todo_id : i \in {j \in DOMAIN steps : steps[j].success}}, 1)

(***************************************************************************)
(* The conditional edge functions (nodes/checker.py).                      *)
(***************************************************************************)
\* Faulty variant: the ready test comes before the failed test.
check_todo_status_ready_first(state) ==
    IF state.needs_clarification THEN "needs_clarify"
    ELSE IF state.todo_list = <<>> THEN "direct_response"
    ELSE IF \A i \in DOMAIN state.todo_list : state.todo_list[i].status = "done" THEN "all_done"
    ELSE IF has_ready_todo(state.todo_list, state.executed_steps) THEN "has_pending"
    ELSE IF \E i \in DOMAIN state.todo_list : state.todo_list[i].status = "failed"
         THEN (IF state.retry_count >= RetryCeiling THEN "all_done" ELSE "needs_replan")
    ELSE "needs_replan"

check_todo_status(state) ==
    IF state.needs_clarification THEN "needs_clarify"
    ELSE IF state.todo_list = <<>> THEN "direct_response"
    ELSE IF \A i \in DOMAIN state.todo_list : state.todo_list[i].status = "done" THEN "all_done"
    ELSE IF \E i \in DOMAIN state.todo_list : state.todo_list[i].status = "failed"
         THEN (IF state.retry_count >= RetryCeiling THEN "all_done" ELSE "needs_replan")
    ELSE IF has_ready_todo(state.todo_list, state.executed_steps) THEN "has_pending"
    ELSE "needs_replan"

after_planner_check(state) ==
    IF state.needs_clarification THEN "needs_clarify"
    ELSE IF state.todo_list = <<>> THEN "direct_response"
    ELSE "has_pending"

(***************************************************************************)
(* The edges of create_orchestrator_graph (graph.py).                      *)
(***************************************************************************)
planner_edges(d) ==
    CASE d = "needs_clarify" -> "clarify"
      [] d = "direct_response" -> "responder"
      [] d = "has_pending" -> "executor"

executor_edges(d) ==
    CASE d = "has_pending" -> "executor"
      [] d = "needs_replan" -> "replanner"
      [] d = "all_done" -> "responder"
      [] d = "needs_clarify" -> "clarify"
      [] d = "direct_response" -> "responder"

\* Faulty variant: needs_replan after the replanner leads to the replanner again.
replanner_edges_again(d) ==
    CASE d = "has_pending" -> "executor"
      [] d = "needs_replan" -> "replanner"
      [] d = "all_done" -> "responder"
      [] d = "needs_clarify" -> "clarify"
      [] d = "direct_response" -> "responder"

replanner_edges(d) ==
    CASE d = "has_pending" -> "executor"
      [] d = "needs_replan" -> "responder"
      [] d = "all_done" -> "responder"
      [] d = "needs_clarify" -> "clarify"
      [] d = "direct_response" -> "responder"

(***************************************************************************)
(* The run state and the merge of a node's delta.                          *)
(***************************************************************************)
State ==
    [todo_list |-> todo_list,
     executed_steps |-> executed_steps,
     retry_count |-> retry_count,
     needs_clarification |-> needs_clarification,
     clarification_question |-> clarification_question,
     final_response |-> final_response,
     error |-> error]

\* Faulty variant: executed_steps has no reducer, the delta's value replaces it.
Merge_replacing(state, delta) ==
    [k \in DOMAIN state |-> IF k \in DOMAIN delta THEN delta[k] ELSE state[k]]

\* OrchestratorState's reducers: executed_steps is Annotated with operator.add,
\* every other key is replaced by the delta's value.
Merge(state, delta) ==
    [k \in DOMAIN state |->
        IF k \in DOMAIN delta
        THEN (IF k = "executed_steps" THEN state[k] \o delta[k] ELSE delta[k])
        ELSE state[k]]

\* The channels of the running graph take the values of new.
SetState(new) ==
    /\ todo_list' = new.todo_list
    /\ executed_steps' = new.executed_steps
    /\ retry_count' = new.retry_count
    /\ needs_clarification' = new.needs_clarification
    /\ clarification_question' = new.clarification_question
    /\ final_response' = new.final_response
    /\ error' = new.error

\* The end of a superstep: the merged state becomes the run state and the
\* checkpointer of the compiled graph saves it under the thread_id.
Commit(new) ==
    /\ SetState(new)
    /\ checkpoint' = new
    /\ UNCHANGED <<inherited, parked>>
    /\ UNCHANGED BoundaryVars

\* initial_state of run_orchestrator.
InitialState ==
    [todo_list |-> <<>>,
     executed_steps |-> <<>>,
     retry_count |-> 0,
     needs_clarification |-> FALSE,
     clarification_question |-> "",
     final_response |-> "",
     error |-> ""]

(***************************************************************************)
(* planner_node (nodes/planner.py).  An answer of the planning LLM is a    *)
(* timeout, an exception, unparseable text, or plan data.                  *)
(***************************************************************************)
\* The tasks of an answer name at most one dependency each (any id: the task's
\* own, the other task's, one absent from the list).
AnswerDeps == {{}} \cup {{a} : a \in Ids}

PlanData ==
    [kind : {"parsed"},
     todos : UpToTwo([id : Ids, depends_on : AnswerDeps]),
     needs_clarification : BOOLEAN,
     clarification_question : {"Welchen Kalender meinst du?"}]

PlannerAnswers ==
    {[kind |-> "timeout"], [kind |-> "exception"], [kind |-> "unparseable"]} \cup PlanData

planner_node(state, answer) ==
    CASE answer.kind = "timeout" ->
            [todo_list |-> <<>>, needs_clarification |-> FALSE,
             clarification_question |-> "", error |-> "LLM timeout after 90s"]
      [] answer.kind = "exception" ->
            [todo_list |-> <<>>, needs_clarification |-> FALSE,
             clarification_question |-> "", error |-> "LLM exception"]
      [] answer.kind = "unparseable" ->
            [todo_list |-> <<>>, needs_clarification |-> TRUE,
             clarification_question |-> FallbackQuestion, error |-> "JSONDecodeError"]
      [] answer.kind = "parsed" ->
            [todo_list |->
                [i \in DOMAIN answer.todos |->
                    [id |-> answer.todos[i].id,
                     depends_on |-> answer.todos[i].depends_on,
                     status |-> "pending",
                     error |-> ""]],
             needs_clarification |-> answer.needs_clarification,
             clarification_question |-> answer.clarification_question]

(***************************************************************************)
(* executor_node (nodes/executor.py).                                      *)
(***************************************************************************)
\* update_todo_status: every entry whose id is todo_id gets the new status, and
\* the error when one is given.
update_todo_status(todos, todo_id, new_status, err) ==
    [i \in DOMAIN todos |->
        IF todos[i].id = todo_id
        THEN [todos[i] EXCEPT !.status = new_status,
                              !.error = IF err # "" THEN err ELSE @]
        ELSE todos[i]]

\* The loop of build_context_with_results from record i on: the positions in
\* the log of the records whose output is put into the context, in log order.
RECURSIVE outputs_from(_, _, _)
outputs_from(todo, steps, i) ==
    IF i > Len(steps) THEN <<>>
    ELSE IF steps[i].todo_id \in todo.depends_on /\ steps[i].success
         THEN <<i>> \o outputs_from(todo, steps, i + 1)
         ELSE outputs_from(todo, steps, i + 1)

\* Faulty variant: the outputs of failed records are put into the context too.
build_context_with_results_any_record(todo, steps) ==
    [description |-> todo.id,
     header |-> todo.depends_on # {},
     outputs |-> IF todo.depends_on # {}
                 THEN SelectSeq([i \in DOMAIN steps |-> i],
                                LAMBDA i : steps[i].todo_id \in todo.depends_on)
                 ELSE <<>>]

\* build_context_with_results: the parts of the context string.  The task's
\* description stands under the task's id; an output stands under the position
\* of its record in the log.
build_context_with_results(todo, steps) ==
    [description |-> todo.id,
     header |-> todo.depends_on # {},
     outputs |-> IF todo.depends_on # {} THEN outputs_from(todo, steps, 1) ELSE <<>>]

\* The loop of graph.executor_node, the logging wrapper, from position i on:
\* the index of the first pending task whose id has no record and whose
\* depends_on ids all have a record, 0 for None.
RECURSIVE announced_from(_, _, _)
announced_from(todos, executed_ids, i) ==
    IF i > Len(todos) THEN 0
    ELSE IF /\ todos[i].status = "pending"
            /\ todos[i].id \notin executed_ids
            /\ \A dep \in todos[i].depends_on : dep \in executed_ids
         THEN i
         ELSE announced_from(todos, executed_ids, i + 1)

\* The task the wrapper logs as about to start.
next_todo(todos, steps) ==
    announced_from(todos, {steps[i].todo_id : i \in DOMAIN steps}, 1)

\* What a tool invocation can come to: an answer of the webhook, a timeout, an
\* HTTP error status, any other exception, or a tool name without a webhook.
ToolOutcomes == {"response", "timeout", "http_error", "exception", "no_webhook"}

\* call_n8n_webhook: the result dict the executor reads (error "" is None).
call_n8n_webhook(outcome) ==
    CASE outcome = "response" -> [success |-> TRUE, error |-> ""]
      [] outcome = "timeout" -> [success |-> FALSE, error |-> "Timeout beim Aufruf von tool"]
      [] outcome = "http_error" -> [success |-> FALSE, error |-> "HTTP Error 500"]
      [] outcome = "exception" -> [success |-> FALSE, error |-> "str(e)"]
      [] outcome = "no_webhook" -> [success |-> FALSE, error |-> "Kein Webhook konfiguriert fuer tool"]

\* Faulty variant: a failed invocation leaves the task pending, to be tried again.
executor_node_retrying(state, success) ==
    LET n == get_next_ready_todo(state.todo_list, state.executed_steps) IN
    IF n = 0 THEN <<>>
    ELSE LET todo == state.todo_list[n]
             execution == [todo_id |-> todo.id, success |-> success]
             new_status == IF execution.success THEN "done" ELSE "pending"
         IN [executed_steps |-> <<execution>>,
             todo_list |-> update_todo_status(state.todo_list, todo.id, new_status, "")]

\* The delta of one cycle; success is the webhook's outcome.
executor_node(state, success) ==
    LET n == get_next_ready_todo(state.todo_list, state.executed_steps) IN
    IF n = 0 THEN <<>>
    ELSE LET todo == state.todo_list[n]
             running == update_todo_status(state.todo_list, todo.id, "running", "")
             execution == [todo_id |-> todo.id, success |-> success]
             new_status == IF execution.success THEN "done" ELSE "failed"
         IN [executed_steps |-> <<execution>>,
             todo_list |-> update_todo_status(running, todo.id, new_status,
                                              IF success THEN "" ELSE "webhook error")]

(***************************************************************************)
(* replanner_node (nodes/replanner.py).                                    *)
(***************************************************************************)
\* With give_up set the answer's new_todos are not read: one such answer stands
\* for all.  A task of new_todos carries the status the LLM wrote.
ReplanData ==
    [kind : {"parsed"}, give_up : {FALSE},
     new_todos : UpToTwo([id : Ids, depends_on : AnswerDeps, status : Statuses, error : {""}])]
    \cup {[kind |-> "parsed", give_up |-> TRUE, new_todos |-> <<>>]}

ReplannerAnswers ==
    {[kind |-> "timeout"], [kind |-> "exception"], [kind |-> "unparseable"]} \cup ReplanData

\* Faulty variant: the pending tasks are left as they are.
fail_pending_keep(todos, reason) == todos

\* Every pending task becomes failed with the reason as its error.
fail_pending(todos, reason) ==
    [i \in DOMAIN todos |->
        IF todos[i].status = "pending"
        THEN [todos[i] EXCEPT !.status = "failed", !.error = reason]
        ELSE todos[i]]

\* Faulty variant: an LLM timeout is not counted as a replanning attempt.
replanner_node_timeout_uncounted(state, answer) ==
    CASE answer.kind = "timeout" ->
            [todo_list |-> state.todo_list, error |-> "Replanning LLM-Timeout nach 90s"]
      [] answer.kind \in {"exception", "unparseable"} ->
            [todo_list |-> state.todo_list, retry_count |-> state.retry_count + 1,
             error |-> "Replanning fehlgeschlagen"]
      [] answer.kind = "parsed" /\ (answer.give_up \/ answer.new_todos = <<>>) ->
            [todo_list |-> fail_pending(state.todo_list, "Aufgabe nicht erfuellbar"),
             retry_count |-> state.retry_count + 1]
      [] answer.kind = "parsed" /\ ~answer.give_up /\ answer.new_todos # <<>> ->
            [todo_list |-> answer.new_todos, retry_count |-> state.retry_count + 1]

\* Faulty variant: an accepted replacement is appended to the old task list.
replanner_node_appending(state, answer) ==
    CASE answer.kind \in {"timeout", "exception", "unparseable"} ->
            [todo_list |-> state.todo_list, retry_count |-> state.retry_count + 1,
             error |-> "Replanning fehlgeschlagen"]
      [] answer.kind = "parsed" /\ (answer.give_up \/ answer.new_todos = <<>>) ->
            [todo_list |-> fail_pending(state.todo_list, "Aufgabe nicht erfuellbar"),
             retry_count |-> state.retry_count + 1]
      [] answer.kind = "parsed" /\ ~answer.give_up /\ answer.new_todos # <<>> ->
            [todo_list |-> state.todo_list \o answer.new_todos,
             retry_count |-> state.retry_count + 1]

replanner_node(state, answer) ==
    CASE answer.kind = "timeout" ->
            [todo_list |-> state.todo_list, retry_count |-> state.retry_count + 1,
             error |-> "Replanning LLM-Timeout nach 90s"]
      [] answer.kind = "exception" ->
            [todo_list |-> state.todo_list, retry_count |-> state.retry_count + 1,
             error |-> "Replanning LLM-Fehler"]
      [] answer.kind = "unparseable" ->
            [todo_list |-> state.todo_list, retry_count |-> state.retry_count + 1,
             error |-> "Replanning fehlgeschlagen"]
      [] answer.kind = "parsed" /\ answer.give_up ->
            [todo_list |-> fail_pending(state.todo_list, "Aufgabe nicht erfuellbar"),
             retry_count |-> state.retry_count + 1]
      [] answer.kind = "parsed" /\ ~answer.give_up /\ answer.new_todos = <<>> ->
            [todo_list |-> fail_pending(state.todo_list,
                                        "Replanning konnte keinen neuen Plan erstellen"),
             retry_count |-> state.retry_count + 1]
      [] answer.kind = "parsed" /\ ~answer.give_up /\ answer.new_todos # <<>> ->
            [todo_list |-> answer.new_todos, retry_count |-> state.retry_count + 1]

(***************************************************************************)
(* responder_node and clarify_node (nodes/responder.py).                   *)
(***************************************************************************)
responder_node(state, llm_ok) ==
    IF llm_ok THEN [final_response |-> "response.content"]
    ELSE [final_response |-> "Sorry, ich konnte gerade keine Antwort generieren. Versuch es bitte nochmal!"]

\* Faulty variant: the default text of clarify_node is the answer.
clarify_node_default_text(state) ==
    [final_response |-> "Ich bin mir nicht sicher was du meinst. Kannst du das genauer erklaeren?"]

clarify_node(state) ==
    [final_response |-> state.clarification_question]

(***************************************************************************)
(* Spec: one run of the graph.                                             *)
(***************************************************************************)
Init ==
    /\ pc = "planner"
    /\ todo_list = InitialState.todo_list
    /\ executed_steps = InitialState.executed_steps
    /\ retry_count = InitialState.retry_count
    /\ needs_clarification = InitialState.needs_clarification
    /\ clarification_question = InitialState.clarification_question
    /\ final_response = InitialState.final_response
    /\ error = InitialState.error
    /\ decision = ""
    /\ selected = -1
    /\ checkpoint = InitialState
    /\ inherited = 0
    /\ parked = <<>>
    /\ loggers = {}
    /\ raised = ""
    /\ returned = <<>>

Planner ==
    /\ pc = "planner"
    /\ \E answer \in PlannerAnswers :
         LET new == Merge(State, planner_node(State, answer)) IN
         /\ Commit(new)
         /\ decision' = after_planner_check(new)
         /\ pc' = planner_edges(after_planner_check(new))
    /\ UNCHANGED selected

Executor ==
    /\ pc = "executor"
    /\ \/ get_next_ready_todo(todo_list, executed_steps) = 0
       \/ Len(executed_steps) < MaxLog
    /\ \E outcome \in ToolOutcomes :
         LET new == Merge(State, executor_node(State, call_n8n_webhook(outcome).success)) IN
         /\ Commit(new)
         /\ decision' = check_todo_status(new)
         /\ pc' = executor_edges(check_todo_status(new))
    /\ selected' = get_next_ready_todo(todo_list, executed_steps)

Replanner ==
    /\ pc = "replanner"
    /\ \E answer \in ReplannerAnswers :
         LET new == Merge(State, replanner_node(State, answer)) IN
         /\ Commit(new)
         /\ decision' = check_todo_status(new)
         /\ pc' = replanner_edges(check_todo_status(new))
    /\ UNCHANGED selected

Responder ==
    /\ pc = "responder"
    /\ \E llm_ok \in BOOLEAN :
         Commit(Merge(State, responder_node(State, llm_ok)))
    /\ pc' = "END"
    /\ UNCHANGED <<decision, selected>>

Clarify ==
    /\ pc = "clarify"
    /\ Commit(Merge(State, clarify_node(State)))
    /\ pc' = "END"
    /\ UNCHANGED <<decision, selected>>

Next == Planner \/ Executor \/ Replanner \/ Responder \/ Clarify

Spec == Init /\ [][Next]_vars

(***************************************************************************)
(* FnSpec: the pure functions of the scheduler called on a run state.      *)
(* The run state is any task list of at most two tasks (any id, any        *)
(* dependency set, any status), any log of at most two records, any        *)
(* retry_count up to MaxRetry and either value of needs_clarification.     *)
(* A call stores what the function returned; calls may follow one another  *)
(* on the same run state.                                                  *)
(***************************************************************************)
FnInit ==
    /\ pc = "call"
    /\ todo_list \in UpToTwo(TodoItem)
    /\ executed_steps \in UpToTwo(ToolExecution)
    /\ retry_count \in 0..MaxRetry
    /\ needs_clarification \in BOOLEAN
    /\ clarification_question = ""
    /\ final_response = ""
    /\ error = ""
    /\ decision = ""
    /\ selected = -1
    /\ checkpoint = InitialState
    /\ inherited = 0
    /\ parked = <<>>
    /\ loggers = {}
    /\ raised = ""
    /\ returned = <<>>

RunStateVars ==
    <<todo_list, executed_steps, retry_count, needs_clarification,
      clarification_question, final_response, error>>

ThreadVars == <<checkpoint, inherited, parked>>

\* Faulty variant: the checker counts the replans itself, in the state it was given.
CallCheckTodoStatus_counting ==
    /\ decision' = check_todo_status(State)
    /\ pc' = "check_todo_status"
    /\ selected' = -1
    /\ retry_count' = IF check_todo_status(State) = "needs_replan" /\ retry_count < MaxRetry
                      THEN retry_count + 1 ELSE retry_count
    /\ UNCHANGED <<todo_list, executed_steps, needs_clarification,
                   clarification_question, final_response, error>>
    /\ UNCHANGED ThreadVars
    /\ UNCHANGED BoundaryVars

\* check_todo_status(state): reads the state, returns the decision.
CallCheckTodoStatus ==
    /\ decision' = check_todo_status(State)
    /\ pc' = "check_todo_status"
    /\ selected' = -1
    /\ UNCHANGED RunStateVars
    /\ UNCHANGED ThreadVars
    /\ UNCHANGED BoundaryVars

\* after_planner_check(state): reads the state, returns the decision.
CallAfterPlannerCheck ==
    /\ decision' = after_planner_check(State)
    /\ pc' = "after_planner_check"
    /\ selected' = -1
    /\ UNCHANGED RunStateVars
    /\ UNCHANGED ThreadVars
    /\ UNCHANGED BoundaryVars

\* get_next_ready_todo(todos, executed_steps): reads both, returns the task.
CallGetNextReadyTodo ==
    /\ selected' = get_next_ready_todo(todo_list, executed_steps)
    /\ pc' = "get_next_ready_todo"
    /\ decision' = ""
    /\ UNCHANGED RunStateVars
    /\ UNCHANGED ThreadVars
    /\ UNCHANGED BoundaryVars

\* has_ready_todo(todos, executed_steps): reads both, returns a bool (stored as
\* Python prints it).
CallHasReadyTodo ==
    /\ decision' = IF has_ready_todo(todo_list, executed_steps) THEN "True" ELSE "False"
    /\ pc' = "has_ready_todo"
    /\ selected' = -1
    /\ UNCHANGED RunStateVars
    /\ UNCHANGED ThreadVars
    /\ UNCHANGED BoundaryVars

FnNext ==
    \/ CallCheckTodoStatus
    \/ CallAfterPlannerCheck
    \/ CallGetNextReadyTodo
    \/ CallHasReadyTodo

FnSpec == FnInit /\ [][FnNext]_vars

(***************************************************************************)
(* LiveSpec: the run without a bound on its length.  The two quantities    *)
(* that grow without bound in a run are kept up to what the scheduler can  *)
(* read of them: check_todo_status reads retry_count only in               *)
(* retry_count >= RetryCeiling, so it is kept up to RetryCeiling; the      *)
(* readiness functions read the log only through the ids that have a       *)
(* success record, so a record equal to one already in the log is not      *)
(* stored again.  ReadsOnlyTheKeptPart states that the decisions on a run  *)
(* state of Spec and on its kept part agree.  The replanning LLM of        *)
(* LiveSpec writes the status that the output format of REPLANNER_PROMPT   *)
(* shows, "pending", for every task.  The graph runs the next node         *)
(* whenever there is one (graph.ainvoke), and every collaborator call      *)
(* returns: weak fairness of the next-state relation.                      *)
(***************************************************************************)
FormatReplannerAnswers ==
    {a \in ReplannerAnswers :
        a.kind = "parsed" =>
            \A i \in DOMAIN a.new_todos : a.new_todos[i].status = "pending"}

Saturated(n) == IF n >= RetryCeiling THEN RetryCeiling ELSE n

RECURSIVE WithoutRepeats(_)
WithoutRepeats(steps) ==
    IF steps = <<>> THEN <<>>
    ELSE LET front == WithoutRepeats(SubSeq(steps, 1, Len(steps) - 1))
             last == steps[Len(steps)]
         IN IF \E i \in DOMAIN front : front[i] = last THEN front ELSE Append(front, last)

Kept(state) ==
    [state EXCEPT !.executed_steps = WithoutRepeats(@),
                  !.retry_count = Saturated(@)]

ReadsOnlyTheKeptPart ==
    /\ check_todo_status(State) = check_todo_status(Kept(State))
    /\ after_planner_check(State) = after_planner_check(Kept(State))
    /\ get_next_ready_todo(todo_list, executed_steps)
         = get_next_ready_todo(todo_list, WithoutRepeats(executed_steps))

LiveExecutor ==
    /\ pc = "executor"
    /\ \E success \in BOOLEAN :
         LET new == Merge(State, executor_node(State, success)) IN
         /\ Commit(Kept(new))
         /\ decision' = check_todo_status(new)
         /\ pc' = executor_edges(check_todo_status(new))
    /\ selected' = get_next_ready_todo(todo_list, executed_steps)

LiveReplanner ==
    /\ pc = "replanner"
    /\ \E answer \in FormatReplannerAnswers :
         LET new == Merge(State, replanner_node(State, answer)) IN
         /\ Commit(Kept(new))
         /\ decision' = check_todo_status(new)
         /\ pc' = replanner_edges(check_todo_status(new))
    /\ UNCHANGED selected

LiveNext == Planner \/ LiveExecutor \/ LiveReplanner \/ Responder \/ Clarify

LiveSpec == Init /\ [][LiveNext]_vars /\ WF_vars(LiveNext)

(***************************************************************************)
(* ThreadSpec: the runs of one user_id on a deployment with DATABASE_URL    *)
(* set.  orchestrate passes use_postgres and thread_id = user_id, so every *)
(* run of the user compiles the graph with the persistent checkpointer and *)
(* invokes it under the same thread_id: graph.ainvoke(initial_state,       *)
(* config) applies initial_state as a delta to the state saved for the     *)
(* thread (executed_steps by operator.add, every other key replaced).      *)
(* Up to two runs are in flight: the run that holds the event loop, in the *)
(* run-state variables, and the parked one; the loop changes hands at the  *)
(* await points between supersteps.  The collaborators answer with plans  *)
(* of at most one task, and the replanning LLM writes status "pending".    *)
(***************************************************************************)
ShortPlannerAnswers ==
    {a \in PlannerAnswers : a.kind = "parsed" => Len(a.todos) <= 1}

ShortReplannerAnswers ==
    {a \in FormatReplannerAnswers : a.kind = "parsed" => Len(a.new_todos) <= 1}

ThreadPlanner ==
    /\ pc = "planner"
    /\ \E answer \in ShortPlannerAnswers :
         LET new == Merge(State, planner_node(State, answer)) IN
         /\ Commit(new)
         /\ decision' = after_planner_check(new)
         /\ pc' = planner_edges(after_planner_check(new))
    /\ UNCHANGED selected

ThreadReplanner ==
    /\ pc = "replanner"
    /\ \E answer \in ShortReplannerAnswers :
         LET new == Merge(State, replanner_node(State, answer)) IN
         /\ Commit(new)
         /\ decision' = check_todo_status(new)
         /\ pc' = replanner_edges(check_todo_status(new))
    /\ UNCHANGED selected

\* The run that holds the event loop, as it is parked.
ThisRun ==
    [pc |-> pc, state |-> State, decision |-> decision, selected |-> selected,
     inherited |-> inherited]

\* run_orchestrator for a second request of the user while the first run is at
\* a superstep boundary (or has ended): the new run's state is the saved state
\* of the thread with initial_state merged into it.
StartRun ==
    /\ parked = <<>>
    /\ parked' = <<ThisRun>>
    /\ LET new == Merge(checkpoint, InitialState) IN
         /\ SetState(new)
         /\ checkpoint' = new
    /\ inherited' = Len(checkpoint.executed_steps)
    /\ pc' = "planner"
    /\ decision' = ""
    /\ selected' = -1
    /\ UNCHANGED BoundaryVars

\* The event loop resumes the parked run and parks the other.
Switch ==
    /\ parked # <<>>
    /\ parked' = <<ThisRun>>
    /\ SetState(parked[1].state)
    /\ pc' = parked[1].pc
    /\ decision' = parked[1].decision
    /\ selected' = parked[1].selected
    /\ inherited' = parked[1].inherited
    /\ UNCHANGED checkpoint
    /\ UNCHANGED BoundaryVars

ThreadNext ==
    \/ ThreadPlanner
    \/ Executor
    \/ ThreadReplanner
    \/ Responder
    \/ Clarify
    \/ StartRun
    \/ Switch

ThreadSpec == Init /\ [][ThreadNext]_vars

(***************************************************************************)
(* PairSpec: two runs that are given the same answers.  A first run of     *)
(* user u goes to its end on the deployment of ThreadSpec.  Then two runs  *)
(* start: the next run of u, on u's thread, in the run-state variables,    *)
(* and a run of another user, whose thread has no checkpoint, in parked.   *)
(* Every superstep is taken by both runs with the same collaborator        *)
(* answer (the same plan, the same tool outcome, the same replacement).    *)
(***************************************************************************)
\* One superstep of a run record: node, merge, conditional edge.
PlanStep(run, answer) ==
    LET new == Merge(run.state, planner_node(run.state, answer)) IN
    [run EXCEPT !.state = new,
                !.decision = after_planner_check(new),
                !.pc = planner_edges(after_planner_check(new))]

ExecStep(run, success) ==
    LET new == Merge(run.state, executor_node(run.state, success)) IN
    [run EXCEPT !.state = new,
                !.decision = check_todo_status(new),
                !.pc = executor_edges(check_todo_status(new)),
                !.selected = get_next_ready_todo(run.state.todo_list,
                                                 run.state.executed_steps)]

ReplanStep(run, answer) ==
    LET new == Merge(run.state, replanner_node(run.state, answer)) IN
    [run EXCEPT !.state = new,
                !.decision = check_todo_status(new),
                !.pc = replanner_edges(check_todo_status(new))]

RespondStep(run, llm_ok) ==
    [run EXCEPT !.state = Merge(run.state, responder_node(run.state, llm_ok)),
                !.pc = "END"]

ClarifyStep(run) ==
    [run EXCEPT !.state = Merge(run.state, clarify_node(run.state)),
                !.pc = "END"]

\* The run on u's thread becomes run and saves its state; the other run
\* becomes other.
BothStep(run, other) ==
    /\ SetState(run.state)
    /\ pc' = run.pc
    /\ decision' = run.decision
    /\ selected' = run.selected
    /\ inherited' = run.inherited
    /\ checkpoint' = run.state
    /\ parked' = <<other>>
    /\ UNCHANGED BoundaryVars

\* The first run of u.
EarlierRun ==
    /\ parked = <<>>
    /\ (ThreadPlanner \/ Executor \/ ThreadReplanner \/ Responder \/ Clarify)

\* run_orchestrator is called for u again and for the other user.
StartPair ==
    /\ parked = <<>>
    /\ pc = "END"
    /\ BothStep([pc |-> "planner", state |-> Merge(checkpoint, InitialState),
                 decision |-> "", selected |-> -1,
                 inherited |-> Len(checkpoint.executed_steps)],
                [pc |-> "planner", state |-> InitialState,
                 decision |-> "", selected |-> -1, inherited |-> 0])

PairPlanner ==
    /\ parked # <<>>
    /\ pc = "planner" /\ parked[1].pc = "planner"
    /\ \E answer \in ShortPlannerAnswers :
         BothStep(PlanStep(ThisRun, answer), PlanStep(parked[1], answer))

PairExecutor ==
    /\ parked # <<>>
    /\ pc = "executor" /\ parked[1].pc = "executor"
    /\ \/ get_next_ready_todo(todo_list, executed_steps) = 0
       \/ Len(executed_steps) < MaxLog
    /\ \E success \in BOOLEAN :
         BothStep(ExecStep(ThisRun, success), ExecStep(parked[1], success))

PairReplanner ==
    /\ parked # <<>>
    /\ pc = "replanner" /\ parked[1].pc = "replanner"
    /\ \E answer \in ShortReplannerAnswers :
         BothStep(ReplanStep(ThisRun, answer), ReplanStep(parked[1], answer))

PairResponder ==
    /\ parked # <<>>
    /\ pc = "responder" /\ parked[1].pc = "responder"
    /\ \E llm_ok \in BOOLEAN :
         BothStep(RespondStep(ThisRun, llm_ok), RespondStep(parked[1], llm_ok))

PairClarify ==
    /\ parked # <<>>
    /\ pc = "clarify" /\ parked[1].pc = "clarify"
    /\ BothStep(ClarifyStep(ThisRun), ClarifyStep(parked[1]))

PairNext ==
    \/ EarlierRun
    \/ StartPair
    \/ PairPlanner
    \/ PairExecutor
    \/ PairReplanner
    \/ PairResponder
    \/ PairClarify

PairSpec == Init /\ [][PairNext]_vars

(***************************************************************************)
(* RunSpec: run_orchestrator around one run of the graph.  The function    *)
(* registers the run's logger, then inside try builds the graph and runs   *)
(* it; except Exception builds the apology result; finally removes the     *)
(* logger.  Building the graph, every node and the bookkeeping after the   *)
(* last node may raise any of the exceptions of Faults.  Another request's *)
(* logger may be in the registry all along.                                *)
(***************************************************************************)
RunId == "run_1"

OtherRunId == "run_2"

\* str(e) of the exceptions: the read of a coroutine's result, a task record
\* that does not validate, the graph's recursion limit, a graph that does not
\* compile.
Faults ==
    {"'coroutine' object has no attribute 'get'",
     "validation error for TodoItem",
     "Recursion limit of 25 reached",
     "Invalid checkpointer"}

Apology == "Sorry, da ist ein Fehler passiert: "

register_logger(registry, run_id) == registry \cup {run_id}

cleanup_logger(registry, run_id) ==
    IF run_id \in registry THEN registry \ {run_id} ELSE registry

RunInit ==
    /\ pc = "run_orchestrator"
    /\ todo_list = InitialState.todo_list
    /\ executed_steps = InitialState.executed_steps
    /\ retry_count = InitialState.retry_count
    /\ needs_clarification = InitialState.needs_clarification
    /\ clarification_question = InitialState.clarification_question
    /\ final_response = InitialState.final_response
    /\ error = InitialState.error
    /\ decision = ""
    /\ selected = -1
    /\ checkpoint = InitialState
    /\ inherited = 0
    /\ parked = <<>>
    /\ loggers \in {{}, {OtherRunId}}
    /\ raised = ""
    /\ returned = <<>>

GraphVars ==
    <<todo_list, executed_steps, retry_count, needs_clarification,
      clarification_question, final_response, error, decision, selected,
      checkpoint, inherited, parked>>

\* The statements before try: the logger is created and registered.
Register ==
    /\ pc = "run_orchestrator"
    /\ loggers' = register_logger(loggers, RunId)
    /\ pc' = "build"
    /\ UNCHANGED <<GraphVars, raised, returned>>

\* try: the checkpointer is chosen and the graph compiled, then ainvoke starts
\* at the entry point; or one of them raises.
BuildGraph ==
    /\ pc = "build"
    /\ \/ pc' = "planner" /\ UNCHANGED raised
       \/ \E e \in Faults : raised' = e /\ pc' = "except"
    /\ UNCHANGED <<GraphVars, loggers, returned>>

\* A node, or the bookkeeping between ainvoke's return and the return
\* statement, raises.
Fault ==
    /\ pc \in {"planner", "executor", "replanner", "responder", "clarify", "END"}
    /\ \E e \in Faults : raised' = e
    /\ pc' = "except"
    /\ UNCHANGED <<GraphVars, loggers, returned>>

\* The return statement of the try block.
Return ==
    /\ pc = "END"
    /\ returned' = [final_response |-> final_response,
                    executed_steps |-> executed_steps,
                    todo_list |-> todo_list]
    /\ pc' = "finally"
    /\ UNCHANGED <<GraphVars, loggers, raised>>

\* Faulty variant: the handler records the failure and raises again.
Handler_reraise ==
    /\ pc = "except"
    /\ pc' = "finally"
    /\ UNCHANGED <<GraphVars, loggers, raised, returned>>

\* except Exception as e: the result of the fault path.
Handler ==
    /\ pc = "except"
    /\ returned' = [final_response |-> <<Apology, raised>>,
                    executed_steps |-> <<>>,
                    todo_list |-> <<>>,
                    error |-> raised]
    /\ pc' = "finally"
    /\ UNCHANGED <<GraphVars, loggers, raised>>

\* finally: the logger leaves the registry; then the pending return value
\* goes to the caller, or, if there is none, the exception does.
Cleanup ==
    /\ pc = "finally"
    /\ loggers' = cleanup_logger(loggers, RunId)
    /\ pc' = IF returned = <<>> THEN "escaped" ELSE "returned"
    /\ UNCHANGED <<GraphVars, raised, returned>>

RunNext ==
    \/ Register
    \/ BuildGraph
    \/ ThreadPlanner
    \/ Executor
    \/ ThreadReplanner
    \/ Responder
    \/ Clarify
    \/ Fault
    \/ Return
    \/ Handler
    \/ Cleanup

RunSpec == RunInit /\ [][RunNext]_vars

(***************************************************************************)
(* PlanCallSpec: planner_node of nodes/planner.py, an async def, called    *)
(* with a run state the way graph.planner_node and test_planner_only call  *)
(* it: without await, the result read at once.  The run state is any of    *)
(* FnInit.                                                                 *)
(***************************************************************************)
\* What calling an async def returns: the coroutine object; the body has not
\* run.
coroutine(function) == [type |-> "coroutine", function |-> function]

\* result = planner_node(state)
CallPlannerNode ==
    /\ pc = "call"
    /\ returned' = coroutine("planner_node")
    /\ pc' = "planner_node"
    /\ UNCHANGED RunStateVars
    /\ UNCHANGED <<decision, selected, loggers, raised>>
    /\ UNCHANGED ThreadVars

\* result.get("todo_list", []): a dict answers; a coroutine object has no get.
ReadResult ==
    /\ pc = "planner_node"
    /\ IF returned.type = "dict"
       THEN pc' = "read" /\ UNCHANGED raised
       ELSE /\ raised' = "'coroutine' object has no attribute 'get'"
            /\ pc' = "raised"
    /\ UNCHANGED RunStateVars
    /\ UNCHANGED <<decision, selected, loggers, returned>>
    /\ UNCHANGED ThreadVars

PlanCallNext == CallPlannerNode \/ ReadResult

PlanCallSpec == FnInit /\ [][PlanCallNext]_vars

(***************************************************************************)
(* Claims about a run (Spec).                                              *)
(***************************************************************************)
\* C1: the tool invoker is never invoked for a task id that already has a
\* record with success = FALSE in the log.  Every invocation appends one record,
\* so: no record of the log follows a failed record of the same id.
C1_NoRerunOfFailedId ==
    \A i \in DOMAIN executed_steps : \A j \in DOMAIN executed_steps :
        (i < j /\ executed_steps[i].todo_id = executed_steps[j].todo_id)
            => executed_steps[i].success

\* C2: no task of the current task list with status pending has an id for which
\* the log holds a record with success = TRUE.
C2_NoPendingWithSuccessRecord ==
    \A i \in DOMAIN todo_list :
        todo_list[i].status = "pending" =>
            ~\E j \in DOMAIN executed_steps :
                /\ executed_steps[j].success
                /\ executed_steps[j].todo_id = todo_list[i].id

\* C5: whenever the responder is entered, no task of the task list handed to it
\* has status pending or running.
C5_ResponseGrounding ==
    pc = "responder" =>
        \A i \in DOMAIN todo_list : todo_list[i].status \notin {"pending", "running"}

\* C6: a run reaches responder or clarify after at most RetryCeiling + 1 = 3
\* invocations of the replanner (retry_count counts them).
C6_BoundedReplanning ==
    retry_count <= RetryCeiling + 1
IsReady(todos, steps, i) ==
    /\ todos[i].status = "pending"
    /\ \A dep \in todos[i].depends_on :
          \E j \in DOMAIN steps : steps[j].success /\ steps[j].todo_id = dep

\* C3: get_next_ready_todo never returns a task one of whose depends_on ids is
\* the id of a task of the list with status failed.
C3_NoFailedDependency ==
    (pc = "get_next_ready_todo" /\ selected > 0) =>
        \A dep \in todo_list[selected].depends_on :
            ~\E k \in DOMAIN todo_list :
                todo_list[k].id = dep /\ todo_list[k].status = "failed"

\* C4: get_next_ready_todo never returns a task whose id already has a record
\* with success = TRUE in the log.
C4_NotAlreadyExecuted ==
    (pc = "get_next_ready_todo" /\ selected > 0) =>
        ~\E j \in DOMAIN executed_steps :
            /\ executed_steps[j].success
            /\ executed_steps[j].todo_id = todo_list[selected].id

\* C8: check_todo_status returns the result of the first matching rule:
\* needs_clarification -> needs_clarify; empty list -> direct_response; every
\* task done -> all_done; some task failed -> all_done if retry_count >= 2 else
\* needs_replan; some ready task -> has_pending; otherwise needs_replan.
C8_Precedence ==
    pc = "check_todo_status" =>
        LET empty == Len(todo_list) = 0
            alldone == \A i \in DOMAIN todo_list : todo_list[i].status = "done"
            failed == \E i \in DOMAIN todo_list : todo_list[i].status = "failed"
            ready == \E i \in DOMAIN todo_list : IsReady(todo_list, executed_steps, i)
            r1 == needs_clarification
            r2 == ~r1 /\ empty
            r3 == ~r1 /\ ~empty /\ alldone
            r4 == ~r1 /\ ~empty /\ ~alldone /\ failed
            r5 == ~r1 /\ ~empty /\ ~alldone /\ ~failed /\ ready
            r6 == ~r1 /\ ~empty /\ ~alldone /\ ~failed /\ ~ready
        IN /\ r1 => decision = "needs_clarify"
           /\ r2 => decision = "direct_response"
           /\ r3 => decision = "all_done"
           /\ (r4 /\ retry_count >= 2) => decision = "all_done"
           /\ (r4 /\ retry_count < 2) => decision = "needs_replan"
           /\ r5 => decision = "has_pending"
           /\ r6 => decision = "needs_replan"

\* Reached: the checker got past every earlier rule and decided a deadlock.
C8_Witness ==
    /\ pc = "check_todo_status"
    /\ decision = "needs_replan"
    /\ ~needs_clarification
    /\ todo_list # <<>>
    /\ \A i \in DOMAIN todo_list : todo_list[i].status # "failed"
    /\ \E i \in DOMAIN todo_list : todo_list[i].status = "pending"

C10_FirstReady ==
    [][pc' = "get_next_ready_todo" =>
          /\ UNCHANGED <<todo_list, executed_steps>>
          /\ LET ready == {i \in DOMAIN todo_list : IsReady(todo_list, executed_steps, i)}
             IN IF ready = {} THEN selected' = 0
                ELSE /\ selected' \in ready
                     /\ \A i \in ready : selected' <= i]_vars

\* Reached: a call that skipped the first task (pending, its dependency without
\* a success record) and returned the second, whose dependency succeeded.
C10_Witness ==
    /\ pc = "get_next_ready_todo"
    /\ selected = 2
    /\ todo_list[1].status = "pending"
    /\ todo_list[2].depends_on # {}

\* C11: for every task list and log, has_ready_todo is true if and only if
\* get_next_ready_todo returns a task; so check_todo_status never decides
\* has_pending on a state on which the executor would find no task.
C11_SameReadiness ==
    /\ pc = "has_ready_todo" =>
          (decision = "True" <=> get_next_ready_todo(todo_list, executed_steps) > 0)
    /\ (pc = "check_todo_status" /\ decision = "has_pending") =>
          get_next_ready_todo(todo_list, executed_steps) > 0

\* Reached: has_ready_todo said no although a pending task's dependency has a
\* record, a failed one.
C11_Witness ==
    /\ pc = "has_ready_todo"
    /\ decision = "False"
    /\ \E i \in DOMAIN todo_list :
          /\ todo_list[i].status = "pending"
          /\ todo_list[i].depends_on # {}
          /\ \A dep \in todo_list[i].depends_on :
                \E j \in DOMAIN executed_steps :
                    executed_steps[j].todo_id = dep /\ ~executed_steps[j].success

(***************************************************************************)
(* Claims about the phases of a run (Spec).                                *)
(***************************************************************************)
\* C12: an execution cycle that finds a ready task appends exactly one record
\* to the log and changes the status of exactly one entry of the task list,
\* the task it selected; every other entry is unchanged.
C12_OneRecordOneTask ==
    [][(pc = "executor" /\ get_next_ready_todo(todo_list, executed_steps) > 0) =>
          LET n == get_next_ready_todo(todo_list, executed_steps) IN
          /\ Len(executed_steps') = Len(executed_steps) + 1
          /\ DOMAIN todo_list' = DOMAIN todo_list
          /\ todo_list'[n].status # todo_list[n].status
          /\ \A i \in DOMAIN todo_list : i # n => todo_list'[i] = todo_list[i]]_vars

\* C13: the log is append-only: after every phase the log before the phase is
\* a prefix of the log after it, and only the executor adds records.
C13_AppendOnlyLog ==
    [][/\ Len(executed_steps') >= Len(executed_steps)
       /\ SubSeq(executed_steps', 1, Len(executed_steps)) = executed_steps
       /\ pc # "executor" => executed_steps' = executed_steps]_vars

\* Reached: a run whose log holds two records went through a replan and ended.
C13_Witness ==
    /\ pc = "END"
    /\ Len(executed_steps) >= 2
    /\ retry_count >= 1

\* The run state after a replanner invocation on the current state with the
\* given answer of the LLM.
AfterReplan(answer) == Merge(State, replanner_node(State, answer))

\* C14: after a replanner invocation whose answer is a give-up, an empty
\* replacement, unparseable, a timeout or an error, no task of the task list
\* has status pending.
C14_NoPendingAfterFailedReplan ==
    [][pc = "replanner" =>
          \A answer \in {a \in ReplannerAnswers :
                            a.kind # "parsed" \/ a.give_up \/ a.new_todos = <<>>} :
              (todo_list' = AfterReplan(answer).todo_list /\ error' = AfterReplan(answer).error)
                  => \A i \in DOMAIN todo_list' : todo_list'[i].status # "pending"]_vars

\* C15: every replanner invocation increases retry_count by exactly 1 and no
\* other phase changes it (it starts at 0, so it counts the invocations).
C15_CountsReplans ==
    [][IF pc = "replanner" THEN retry_count' = retry_count + 1
                           ELSE retry_count' = retry_count]_vars

\* Reached: the second replanner invocation of a run ended in an LLM timeout.
C15_Witness ==
    /\ retry_count = 2
    /\ error = "Replanning LLM-Timeout nach 90s"
    /\ pc # "replanner"

\* C16: the phase transitions are those of the table: responder is entered
\* only on all_done or direct_response, replanner only after the executor on
\* needs_replan, executor only on has_pending, clarify only on needs_clarify,
\* and after responder or clarify the run ends.
C16_TransitionTable ==
    [][/\ pc # "END"
       /\ pc \in {"responder", "clarify"} => pc' = "END"
       /\ pc' = "responder" => decision' \in {"all_done", "direct_response"}
       /\ pc' = "replanner" => (pc = "executor" /\ decision' = "needs_replan")
       /\ pc' = "executor" => decision' = "has_pending"
       /\ pc' = "clarify" => decision' = "needs_clarify"]_vars

\* C17: every task list of the run state has pairwise distinct ids and every
\* depends_on id is the id of another task of the same list.
C17_WellFormedTaskList ==
    \A i \in DOMAIN todo_list :
        /\ \A j \in DOMAIN todo_list : i # j => todo_list[i].id # todo_list[j].id
        /\ \A dep \in todo_list[i].depends_on :
              /\ dep # todo_list[i].id
              /\ \E j \in DOMAIN todo_list : todo_list[j].id = dep

(***************************************************************************)
(* Claims about the runs of a thread (ThreadSpec).                         *)
(***************************************************************************)
\* C18: every run starts its plan phase with an empty task list and an empty
\* log, also when an earlier run of the same user_id has ended before.
C18_FreshRunState ==
    (pc = "planner" /\ (parked = <<>> \/ parked[1].pc = "END")) =>
        /\ todo_list = <<>>
        /\ executed_steps = <<>>

\* The records the run appended itself.
OwnSteps == SubSeq(executed_steps, inherited + 1, Len(executed_steps))

\* C19: while two runs are in flight, the readiness decision and the checker's
\* decision of a run depend on its own records only: they are what they would
\* be on the log without the records the other run wrote.
C19_RunIsolation ==
    (parked # <<>> /\ parked[1].pc # "END" /\ pc \notin {"planner", "END"}) =>
        /\ get_next_ready_todo(todo_list, executed_steps)
             = get_next_ready_todo(todo_list, OwnSteps)
        /\ check_todo_status(State)
             = check_todo_status([State EXCEPT !.executed_steps = OwnSteps])

\* C20: whenever clarify is entered, the log is empty and no tool was invoked
\* in the run (the executor never selected a task, the replanner never ran).
C20_ClarifyBeforeAnyTool ==
    pc = "clarify" =>
        /\ executed_steps = <<>>
        /\ selected = -1
        /\ retry_count = 0

C22_DirectResponse ==
    [][/\ (pc = "planner" /\ parked' = parked /\ todo_list' = <<>> /\ ~needs_clarification')
            => /\ decision' = "direct_response"
               /\ pc' = "responder"
               /\ executed_steps' = <<>>
               /\ selected' = -1
               /\ retry_count' = 0
       /\ (pc = "responder" /\ decision = "direct_response" /\ parked' = parked)
            => (pc' = "END" /\ executed_steps' = <<>>)]_vars

\* C23: for a plan of N tasks without dependencies whose tool invocations all
\* succeed, the replanner is never invoked, the tasks are executed in declared
\* order, one record each, and the run enters the responder on all_done with
\* every task done and exactly N records.
C23_AllSucceed ==
    (/\ retry_count = 0
     /\ todo_list # <<>>
     /\ ~needs_clarification
     /\ \A i \in DOMAIN todo_list : todo_list[i].depends_on = {}
     /\ \A j \in DOMAIN executed_steps : executed_steps[j].success)
    => /\ pc # "replanner"
       /\ Len(executed_steps) <= Len(todo_list)
       /\ \A j \in DOMAIN executed_steps : executed_steps[j].todo_id = todo_list[j].id
       /\ pc \in {"responder", "END"} =>
             /\ Len(executed_steps) = Len(todo_list)
             /\ \A i \in DOMAIN todo_list : todo_list[i].status = "done"
             /\ decision = "all_done"

\* C24: when the tool invoker is called for a task, every id of the task's
\* depends_on has a record with success = TRUE in the log before the call.
C24_DependencyOrder ==
    [][(pc = "executor" /\ Len(executed_steps') > Len(executed_steps)) =>
          /\ selected' \in DOMAIN todo_list
          /\ executed_steps'[Len(executed_steps')].todo_id = todo_list[selected'].id
          /\ \A dep \in todo_list[selected'].depends_on :
                \E j \in DOMAIN executed_steps :
                    executed_steps[j].success /\ executed_steps[j].todo_id = dep]_vars

\* Reached: the second task of the list was invoked after its dependency, the
\* first task, had succeeded.
C24_Witness ==
    /\ selected = 2
    /\ Len(executed_steps) = 2
    /\ todo_list[2].depends_on = {todo_list[1].id}
    /\ todo_list[1].id # todo_list[2].id
    /\ executed_steps[1] = [todo_id |-> todo_list[1].id, success |-> TRUE]
    /\ executed_steps[2].todo_id = todo_list[2].id

\* C25: when a task has failed, the task of the first replacement has failed
\* again and the second replanner invocation answers give_up, then every
\* pending task becomes failed, the decision is all_done and the run enters
\* the responder with the failed records in the log.
C25_FailureThenGiveUp ==
    [][(/\ pc = "replanner"
        /\ retry_count = 1
        /\ \E i \in DOMAIN todo_list : todo_list[i].status = "failed"
        /\ \E j \in DOMAIN executed_steps : \E k \in DOMAIN executed_steps :
              j < k /\ ~executed_steps[j].success /\ ~executed_steps[k].success
        /\ todo_list' = fail_pending(todo_list, "Aufgabe nicht erfuellbar")
        /\ error' = error
        /\ retry_count' = 2)
       => /\ \A i \in DOMAIN todo_list' : todo_list'[i].status # "pending"
          /\ decision' = "all_done"
          /\ pc' = "responder"
          /\ executed_steps' = executed_steps]_vars

\* Reached: the responder is entered after the give-up of the second replan,
\* with a task that was pending until then.
C25_Witness ==
    /\ pc = "responder"
    /\ retry_count = 2
    /\ decision = "all_done"
    /\ \E i \in DOMAIN todo_list : todo_list[i].error = "Aufgabe nicht erfuellbar"
    /\ Len(executed_steps) >= 2
    /\ \A j \in DOMAIN executed_steps : ~executed_steps[j].success

\* C26: when the planning LLM times out, the plan phase yields what it yields
\* for unparseable output: an empty task list, needs_clarification = TRUE and
\* the fallback question, and the run goes to clarify.
C26_PlannerTimeoutClarifies ==
    [][(pc = "planner" /\ error' = "LLM timeout after 90s") =>
          /\ todo_list' = <<>>
          /\ needs_clarification'
          /\ clarification_question' = FallbackQuestion
          /\ pc' = "clarify"]_vars

\* C28: once retry_count has reached the ceiling the replanner is not invoked
\* again, and the responder is entered with no task pending.
C28_Exhaustion ==
    retry_count >= RetryCeiling =>
        /\ pc # "replanner"
        /\ pc = "responder" =>
              \A i \in DOMAIN todo_list : todo_list[i].status # "pending"

\* C29: two runs that are given the same planner answers and the same tool
\* outcomes are in the same phase after every superstep, with the same
\* decision, the same task list (ids and statuses) and the same records
\* appended to the log.
C29_Deterministic ==
    parked # <<>> =>
        /\ pc = parked[1].pc
        /\ decision = parked[1].decision
        /\ todo_list = parked[1].state.todo_list
        /\ OwnSteps = parked[1].state.executed_steps

(***************************************************************************)
(* Claims about run_orchestrator (RunSpec) and about the call of           *)
(* planner_node (PlanCallSpec).                                            *)
(***************************************************************************)

\* C27: no exception raised while the graph is built or run leaves
\* run_orchestrator: the caller gets a result; after a fault the result's
\* final_response is the apology followed by the error text, its error field
\* is the error text and its record and task lists are empty; after a normal
\* run the result carries the run's final_response and no error field; and
\* on both paths the run's logger has left the registry, no other logger has.
C27_FaultBoundary ==
    /\ pc # "escaped"
    /\ pc = "returned" =>
         /\ RunId \notin loggers
         /\ returned # <<>>
         /\ raised # "" =>
              returned = [final_response |-> <<Apology, raised>>,
                          executed_steps |-> <<>>,
                          todo_list |-> <<>>,
                          error |-> raised]
         /\ raised = "" =>
              /\ returned.final_response = final_response
              /\ "error" \notin DOMAIN returned
    /\ pc \in {"run_orchestrator", "returned"} => loggers \subseteq {OtherRunId}
    /\ pc \notin {"run_orchestrator", "returned"} => RunId \in loggers

\* A node raised after a tool had run and after another request's logger was
\* registered; run_orchestrator has returned.
C27_Witness ==
    /\ pc = "returned"
    /\ raised # ""
    /\ executed_steps # <<>>
    /\ loggers = {OtherRunId}

\* C30: planner_node called with a run state returns a mapping that has
\* todo_list and plan_reasoning, and reading the result raises nothing.
C30_PlannerReturnsPlan ==
    /\ pc = "planner_node" => {"todo_list", "plan_reasoning"} \subseteq DOMAIN returned
    /\ raised = ""

(***************************************************************************)
(* Claims about the decisions, the replacement list and the execute phase  *)
(* (Spec).                                                                 *)
(***************************************************************************)

\* C31: on every state the planner produces, the decision taken after planning
\* (after_planner_check) is the decision check_todo_status gives on the same
\* state; a non-empty plan with no ready task is not routed to the executor.
C31_SameDecisionAfterPlan ==
    [][pc = "planner" =>
          /\ decision' = check_todo_status(State')
          /\ (todo_list' # <<>> /\ ~has_ready_todo(todo_list', executed_steps'))
                => pc' # "executor"]_vars

\* The answers of the replanner LLM that carry a non-empty replacement list.
Replacements ==
    {a \in ReplannerAnswers : a.kind = "parsed" /\ ~a.give_up /\ a.new_todos # <<>>}

\* The replacement list as the replanner builds it from the answer: id and
\* depends_on of every task.
Shape(todos) ==
    [i \in DOMAIN todos |-> [id |-> todos[i].id, depends_on |-> todos[i].depends_on]]

\* C32: when the replanner accepts a non-empty replacement list, the task list
\* of the run state becomes that list, task for task (no old task is carried
\* over), and the log is unchanged: the records of dropped tasks stay.
C32_ReplacementReplaces ==
    pc = "replanner" =>
        \A answer \in Replacements :
            /\ Shape(AfterReplan(answer).todo_list) = Shape(answer.new_todos)
            /\ AfterReplan(answer).executed_steps = executed_steps

\* Reached: the replanner has replaced the list and the log holds a record of a
\* task that is not in the new list.
C32_Witness ==
    /\ retry_count = 1
    /\ todo_list # <<>>
    /\ \E i \in DOMAIN executed_steps :
          \A j \in DOMAIN todo_list : todo_list[j].id # executed_steps[i].todo_id

\* C33: every task of a replacement list the replanner accepts enters the run
\* state with status pending, whatever status the answer carries for it.
C33_ReplacementPending ==
    pc = "replanner" =>
        \A answer \in Replacements :
            \A i \in DOMAIN AfterReplan(answer).todo_list :
                AfterReplan(answer).todo_list[i].status = "pending"

\* C38: every task of the task list with status done has a record with
\* success = TRUE and its id in the log of the run.
C38_DoneHasSuccessRecord ==
    \A i \in DOMAIN todo_list :
        todo_list[i].status = "done" =>
            \E j \in DOMAIN executed_steps :
                /\ executed_steps[j].todo_id = todo_list[i].id
                /\ executed_steps[j].success

\* The outcomes of a tool invocation that are failures.
FailureOutcomes == ToolOutcomes \ {"response"}

\* C34: a tool invocation that fails (timeout, HTTP error, exception, no
\* webhook for the tool) gives a result with success = FALSE;
\* the cycle appends exactly one record, of the selected task, with
\* success = FALSE, every other record stays, the task's status becomes
\* failed, and the checker's decision is needs_replan while retry_count is
\* below the ceiling.
C34_FailedInvocation ==
    /\ \A outcome \in FailureOutcomes : ~call_n8n_webhook(outcome).success
    /\ [][(pc = "executor" /\ executed_steps' # executed_steps
                           /\ ~executed_steps'[Len(executed_steps')].success) =>
             /\ selected' \in DOMAIN todo_list
             /\ executed_steps' = Append(executed_steps,
                                         [todo_id |-> todo_list[selected'].id,
                                          success |-> FALSE])
             /\ todo_list'[selected'].status = "failed"
             /\ pc' \in {"executor", "replanner", "responder", "clarify"}
             /\ retry_count < RetryCeiling =>
                   (decision' = "needs_replan" /\ pc' = "replanner")]_vars

\* Reached: the first invocation of the run failed, a second task of the plan
\* was ready, and the run is at the replanner.
C34_Witness ==
    /\ pc = "replanner"
    /\ decision = "needs_replan"
    /\ retry_count = 0
    /\ Len(todo_list) = 2
    /\ selected = 1
    /\ executed_steps = <<[todo_id |-> todo_list[1].id, success |-> FALSE]>>
    /\ todo_list[1].status = "failed"
    /\ todo_list[2].status = "pending"
    /\ todo_list[2].depends_on = {}

\* C35: the context built for the task that is invoked holds the task's
\* description and, for every id of depends_on, the output of a record of that
\* id with success = TRUE; it holds no output of a record with success = FALSE
\* and no output of a record whose todo_id is not in depends_on.
C35_ContextOfDependencies ==
    [][(pc = "executor" /\ executed_steps' # executed_steps) =>
          /\ selected' \in DOMAIN todo_list
          /\ LET todo == todo_list[selected']
                 context == build_context_with_results(todo, executed_steps)
                 used == {context.outputs[k] : k \in DOMAIN context.outputs}
             IN /\ context.description = todo.id
                /\ \A dep \in todo.depends_on :
                      \E i \in used : /\ executed_steps[i].todo_id = dep
                                      /\ executed_steps[i].success
                /\ \A i \in used : /\ i \in DOMAIN executed_steps
                                   /\ executed_steps[i].success
                                   /\ executed_steps[i].todo_id \in todo.depends_on]_vars

\* Reached: the second task was invoked; it depends on the first, whose id has
\* a failed record and then a successful one in the log.
C35_Witness ==
    /\ selected = 2
    /\ Len(executed_steps) = 3
    /\ Len(todo_list) = 2
    /\ todo_list[2].depends_on = {todo_list[1].id}
    /\ executed_steps[1] = [todo_id |-> todo_list[1].id, success |-> FALSE]
    /\ executed_steps[2] = [todo_id |-> todo_list[1].id, success |-> TRUE]
    /\ executed_steps[3].todo_id = todo_list[2].id
    /\ todo_list[1].id # todo_list[2].id

\* C36: in an executor step a task's status stays, or goes from pending to
\* done or failed (done exactly when the appended record has success = TRUE);
\* a task with status done or failed keeps it; and a replanner step that
\* keeps the tasks of the list changes no status but pending to failed.
C36_StatusMachine ==
    [][/\ pc = "executor" =>
            \A i \in DOMAIN todo_list :
                \/ todo_list'[i].status = todo_list[i].status
                \/ /\ todo_list[i].status = "pending"
                   /\ executed_steps' # executed_steps
                   /\ todo_list'[i].status =
                        IF executed_steps'[Len(executed_steps')].success
                        THEN "done" ELSE "failed"
       /\ (pc = "replanner" /\ todo_list' \in {fail_pending(todo_list, "Aufgabe nicht erfuellbar"),
                                  fail_pending(todo_list, "Replanning konnte keinen neuen Plan erstellen"),
                                  todo_list}) =>
            \A i \in DOMAIN todo_list :
                \/ todo_list'[i].status = todo_list[i].status
                \/ todo_list[i].status = "pending" /\ todo_list'[i].status = "failed"]_vars

\* C37: the task the executor selects has every id of its depends_on among the
\* ids of the tasks of the current task list that have status done.
C37_DependenciesInCurrentList ==
    [][(pc = "executor" /\ selected' \in DOMAIN todo_list) =>
          \A dep \in todo_list[selected'].depends_on :
              \E j \in DOMAIN todo_list :
                  todo_list[j].id = dep /\ todo_list[j].status = "done"]_vars

\* The answers of the replanner LLM that leave the task list as it is.
NoAnswers == {[kind |-> "timeout"], [kind |-> "exception"], [kind |-> "unparseable"]}

\* C39: a replanner invocation that ends in a timeout, an error or an
\* unparseable answer leaves the task list unchanged, and the phase after it
\* is the responder, never the executor or the replanner.
C39_UnchangedListResponds ==
    [][(pc = "replanner" /\ \E answer \in NoAnswers : error' = AfterReplan(answer).error) =>
          /\ todo_list' = todo_list
          /\ pc' = "responder"]_vars

\* Reached: the replanner timed out on a list with a failed task, below the
\* ceiling; the checker decided needs_replan and the run is at the responder.
C39_Witness ==
    /\ pc = "responder"
    /\ error = "Replanning LLM-Timeout nach 90s"
    /\ decision = "needs_replan"
    /\ retry_count = 1
    /\ \E i \in DOMAIN todo_list : todo_list[i].status = "failed"

\* C40: the task the logging wrapper of the executor announces is the task
\* get_next_ready_todo selects on the same state, and it announces none
\* exactly when get_next_ready_todo selects none.
C40_WrapperAnnouncesSelected ==
    pc = "executor" =>
        next_todo(todo_list, executed_steps) = get_next_ready_todo(todo_list, executed_steps)

====
